---- MODULE Spec2Model ----
(***************************************************************************)
(* Model of the authenticated API client of the provider frontend          *)
(* (src/src/services/api.ts): the axios request/response interceptors, the *)
(* token refresh coordination state (isRefreshing, refreshSubscribers) and *)
(* the two entries of the secure store; the logout of                      *)
(* src/src/services/auth.ts and the isAuthenticated state of the           *)
(* AuthProvider (src/src/store/auth-context.tsx).                          *)
(*                                                                         *)
(* JavaScript runs one macrotask at a time and drains the microtask queue  *)
(* before the next macrotask.  Every action below is one macrotask (a      *)
(* native SecureStore call completing, an HTTP exchange completing, a call *)
(* from the UI) together with the synchronous code that follows it, except *)
(* ResumeReplay, which is a microtask: the other actions are disabled      *)
(* while the microtask queue is not empty.                                 *)
(***************************************************************************)
EXTENDS Integers, Sequences, FiniteSets, TLC

\* ---------------------------------------------------------------- bounds
NReq == 3
Max401 == 3

\* the routes: '/' and '/(main)' show the dashboard
Home == <<"(main)">>
Login == <<"(auth)", "login">>
GoogleCallback == <<"(auth)", "google-callback">>
Routes == {Login, GoogleCallback, Home, <<"(main)", "company-profile">>,
           <<"(main)", "job-postings">>,
           <<"(main)", "job-postings", "create">>}

\* router.replace('/auth/login') of AuthProvider.logout: no route has this
\* path, the login screen being '/(auth)/login'
LogoutTarget == <<"auth", "login">>

\* the layouts a route is rendered in
Mounted(route) ==
  {"root"} \cup (IF route[1] = "(auth)" THEN {"auth"} ELSE {})
           \cup (IF route[1] = "(main)" THEN {"main"} ELSE {})

\* seconds are counted up to here
MaxElapsed == 65

Reqs == 1..NReq

\* the request configuration of POST /auth/refresh-token, as an entry of
\* refreshSubscribers (the requests of the callers are 1..NReq)
RefreshReq == 0

\* an HTTP exchange ends with a status, or with no response at all
\* (transport failure or timeout), written NoResponse
NoResponse == 0
OtherStatuses == {404, NoResponse}

\* the url of a request: an endpoint of the backend, the logout endpoint, the
\* refresh endpoint; NoUrl where there is no request
Resource == "/resource"
LogoutPath == "/auth/logout"
VerifyPath == "/auth/verify-otp"
RefreshPath == "/auth/refresh-token"
NoUrl == ""

VARIABLES
  accessTok,          \* SecureStore entry AUTH_TOKEN_KEY (0: absent)
  refreshTok,         \* SecureStore entry AUTH_REFRESH_TOKEN_KEY (0: absent)
  isRefreshing,       \* ApiService.isRefreshing
  refreshSubscribers, \* ApiService.refreshSubscribers, as the requests waiting
  microtasks,         \* resolved continuations whose .then has not run yet
  pc,                 \* position of each call
  url,                \* originalRequest.url (with it the method, the query
                      \* parameters and the body of the request)
  retry,              \* originalRequest._retry
  hdr,                \* config.headers.Authorization (0: no header)
  result,             \* what the step just taken gave to a caller, if anything
  resp,               \* response.data of the refresh call, held by the leader
  err,                \* refreshError caught by the leader
  issued,             \* the last token pair the backend has issued
  n401,               \* number of 401 answers the backend has given
  ctxAuthenticated,   \* AuthProvider: isAuthenticated
  isLoading,          \* AuthProvider: isLoading
  checkAuthPc,        \* position of the AuthProvider's checkAuth
  logoutReq,          \* the call made by authService.logout (0: none)
  logoutPc,           \* position of AuthProvider.logout
  \* ------------------------------------------------ history (observation)
  calls,              \* number of POST /auth/refresh-token calls dispatched
  att,                \* number of times each request has been dispatched
  nPart,              \* number of successful refreshes the request took part in
  part,               \* access token of the last refresh the request was in
  enqNo,              \* n401 at the moment the request was last enqueued
  tok1,               \* the token of the first attempt, once it has drawn a
                      \* 401 that entered the recovery path
  stampAt,            \* and the number of refreshes completed until then
  led1,               \* the request's first 401 made it issue a refresh call
  outcomes,           \* outcomes of the completed refreshes, in order
  written,            \* the newest access token ever written to the store
  answered,           \* the HTTP exchange that ended in this step, if any
  lastStatus,         \* how the last exchange made for a pending call ended
  wire,               \* the request dispatched in this step, if any
  sent1,              \* the url of the first dispatch of each request
  \* ------------------------------------------- the company profile query
  qScreen,            \* the screen whose useQuery options the query runs with
  qState,             \* position of the query's fetch
  failureCount,       \* the retryer's count of failed attempts
  qError,             \* the error the last attempt was rejected with
  retries,            \* number of times this fetch has been retried
  qFailures,          \* statuses of the failed attempts of this fetch
  \* ------------------------------------------------------ the login screen
  loginStep,          \* LoginScreen: step (and the request it waits for)
  countdown,          \* OTPVerification: countdown
  sinceRequest,       \* seconds since the last OTP request was made
  \* --------------------------------------------------------- the router
  segments,           \* useSegments(): the route shown
  effects,            \* the layouts whose guard effect is to run
  guardRun,           \* the guard effect that ran in this step, if any, and
                      \* the route it replaced the shown one with
  \* ------------------------------------------------------ verifyOTP
  verifyPc,           \* position of the verifyOTP in progress
  verifyReq,          \* the call made by authService.verifyOTP (0: none)
  verifyBy,           \* its caller: the AuthProvider or the OTP form
  verifyBody          \* the tokens of the response it stores

\* the state of the ApiService, of the store and of the AuthProvider
service == <<accessTok, refreshTok, isRefreshing, refreshSubscribers,
             microtasks, pc, url, retry, hdr, result, resp, err, issued, n401,
             logoutReq, logoutPc, verifyPc,
             calls, att, nPart, part, enqNo, tok1, stampAt, led1, outcomes,
             written, answered, lastStatus, wire, sent1>>

\* with the flags of the AuthProvider
api == <<service, ctxAuthenticated, isLoading, checkAuthPc>>

\* the state of the company profile query
query == <<qScreen, qState, failureCount, qError, retries, qFailures>>

\* the state of the login screen and of its OTP form
otp == <<loginStep, countdown, sinceRequest>>

\* the state of the screens
\* the state of the router and of the layouts' guards
nav == <<segments, effects, guardRun>>

\* the verifyOTP in progress
login == <<verifyReq, verifyBy, verifyBody>>

ui == <<query, otp, nav, login>>

\* everything but the company profile query
notQuery == <<api, otp, nav, login>>

\* everything but the login screen
notOtp == <<api, query, nav, login>>

\* everything but the router and the flags of the AuthProvider
notNav == <<service, query, otp, login>>

vars == <<api, ui>>

\* the state of the AuthProvider and of its logout
app == <<ctxAuthenticated, isLoading, checkAuthPc, logoutReq, logoutPc>>

hist == <<calls, att, nPart, part, enqNo, tok1, stampAt, led1, outcomes,
          written>>

Range(s) == {s[i] : i \in 1..Len(s)}

\* response.data of a 2xx response
Body_Response == [kind |-> "response", status |-> 200]

Body == [kind |-> "body", status |-> 200]
NoError == [kind |-> "none", status |-> 0]

\* new ApiError(message, status, data)
ApiError_Plain(status) == [kind |-> "Error", status |-> status]

ApiError(status) == [kind |-> "ApiError", status |-> status]

\* new Error('No refresh token available')
PlainError == [kind |-> "Error", status |-> 0]

\* error.response?.status || 500
StatusOr500(st) == IF st = NoResponse THEN 500 ELSE st

\* ApiService.handleError
handleError_Rethrow(e) == e

handleError(e) ==
  IF e.kind = "ApiError" THEN e ELSE ApiError(StatusOr500(e.status))

\* ApiService.isAuthenticated: !!token
isAuthenticated == accessTok # 0

\* no public operation returns or throws in this step
NoResult == [req |-> 0, kind |-> "none", status |-> 0]

Silent == result' = NoResult /\ UNCHANGED verifyPc

\* the public operation called for r returns res (a body) or throws it (an
\* ApiError) in this step
Returns(r, res) ==
  /\ result' = [req |-> r, kind |-> res.kind, status |-> res.status]
  /\ verifyPc' = IF verifyPc = "post" /\ r = verifyReq
                   THEN IF res.kind = "body" THEN "resolved" ELSE "rejected"
                   ELSE verifyPc

\* no HTTP exchange ends in this step
NothingAnswered == answered' = <<>>

\* the exchange of request c (a request of a caller, or RefreshReq) ends in
\* this step with status st, or with no response
Answers(c, st) == answered' = <<[req |-> c, status |-> st]>>

\* no request is dispatched in this step
NothingSent == wire' = <<>>

\* the call for r has returned: its request config, the refresh response and
\* the caught error are no longer referenced by anything
Forgets(r) ==
  /\ retry' = [retry EXCEPT ![r] = FALSE]
  /\ hdr' = [hdr EXCEPT ![r] = 0]
  /\ resp' = [resp EXCEPT ![r] = 0]
  /\ err' = [err EXCEPT ![r] = NoError]
  /\ url' = [url EXCEPT ![r] = NoUrl]

\* no screen has mounted the company profile query
QueryInit ==
  /\ qScreen = "none"
  /\ qState = "idle"
  /\ failureCount = 0
  /\ qError = NoError
  /\ retries = 0
  /\ qFailures = <<>>

\* LoginScreen as it mounts: the email form; no OTP has been requested
OtpInit ==
  /\ loginStep = "email"
  /\ countdown = 0
  /\ sinceRequest = MaxElapsed

\* the dashboard is shown and the guards have run
NavInit ==
  /\ segments = Home
  /\ effects = {}
  /\ guardRun = <<>>

\* no response of verifyOTP
NoTokens == [access |-> 0, refresh |-> 0]

\* no verifyOTP has been called
VerifyInit ==
  /\ verifyReq = 0
  /\ verifyBy = "none"
  /\ verifyBody = NoTokens

UiInit == QueryInit /\ OtpInit /\ NavInit /\ VerifyInit

\* The app on a device whose store holds the token pair tok (0: no tokens),
\* with the AuthProvider mounted and its checkAuth completed (done) or not
Installed(tok, done) ==
  /\ accessTok = tok
  /\ refreshTok = tok
  /\ isRefreshing = FALSE
  /\ refreshSubscribers = <<>>
  /\ microtasks = <<>>
  /\ pc = [r \in Reqs |-> "idle"]
  /\ url = [r \in Reqs |-> NoUrl]
  /\ retry = [r \in Reqs |-> FALSE]
  /\ hdr = [r \in Reqs |-> 0]
  /\ result = NoResult
  /\ resp = [r \in Reqs |-> 0]
  /\ err = [r \in Reqs |-> NoError]
  /\ issued = tok
  /\ n401 = 0
  /\ ctxAuthenticated = (done /\ tok # 0)
  /\ isLoading = ~done
  /\ checkAuthPc = IF done THEN "done" ELSE "read"
  /\ logoutReq = 0
  /\ logoutPc = "none"
  /\ verifyPc = "none"
  /\ calls = 0
  /\ att = [r \in Reqs |-> 0]
  /\ nPart = [r \in Reqs |-> 0]
  /\ part = [r \in Reqs |-> 0]
  /\ enqNo = [r \in Reqs |-> 0]
  /\ tok1 = [r \in Reqs |-> 0]
  /\ stampAt = [r \in Reqs |-> 0]
  /\ led1 = [r \in Reqs |-> FALSE]
  /\ outcomes = <<>>
  /\ written = tok
  /\ answered = <<>>
  /\ lastStatus = [r \in Reqs |-> <<>>]
  /\ wire = <<>>
  /\ sent1 = [r \in Reqs |-> NoUrl]

\* a signed-in user on the dashboard
Init == Installed(1, TRUE) /\ UiInit

\* the promise of authService.verifyOTP's post has settled and its
\* continuation has not run yet
VerifySettled == verifyPc \in {"resolved", "rejected"}

\* a macrotask starts only when the microtask queue has been drained
Macrotask == microtasks = <<>> /\ ~VerifySettled

\* The calls are interchangeable until they are dispatched: they are numbered
\* in the order in which the UI makes them, and in the order of their first
\* dispatch (a call that has not been dispatched yet has no effect on the
\* others, so every interleaving is one of these up to the numbering).
NumberedByCall(r) == \A q \in Reqs : q < r => pc[q] # "idle"

NumberedByDispatch(r) == att[r] = 0 => \A q \in Reqs : q < r => att[q] > 0

\* get / post / put / patch / delete: this.instance.<method>(url, ...) starts
\* the request interceptor, which awaits SecureStore.getItemAsync
Call(r) ==
  /\ Macrotask
  /\ pc[r] = "idle"
  /\ NumberedByCall(r)
  /\ pc' = [pc EXCEPT ![r] = "attach"]
  /\ Silent
  /\ url' = [url EXCEPT ![r] = Resource]
  /\ NothingAnswered
  /\ NothingSent
  /\ UNCHANGED <<lastStatus, sent1>>
  /\ UNCHANGED <<app, ui>>
  /\ UNCHANGED <<accessTok, refreshTok, isRefreshing, refreshSubscribers,
                 microtasks, retry, hdr, resp, err, issued, n401>>
  /\ UNCHANGED hist

\* the header the request interceptor leaves in the configuration
AttachHeader(old) == IF accessTok # 0 THEN accessTok ELSE old

\* return config: the url (method, query parameters, body) of the request
\* that leaves the request interceptor
RequestUrl_Refresh(r) == IF att[r] = 0 THEN url[r] ELSE RefreshPath

RequestUrl(r) == url[r]

\* request interceptor, after the await: attach the stored token and dispatch
Attach(r) ==
  /\ Macrotask
  /\ pc[r] = "attach"
  /\ NumberedByDispatch(r)
  /\ hdr' = [hdr EXCEPT ![r] = AttachHeader(hdr[r])]
  /\ pc' = [pc EXCEPT ![r] = "inflight"]
  /\ att' = [att EXCEPT ![r] = @ + 1]
  /\ Silent
  /\ wire' = <<[req |-> r, url |-> RequestUrl(r), auth |-> hdr'[r]]>>
  /\ sent1' = IF att[r] = 0 THEN [sent1 EXCEPT ![r] = RequestUrl(r)] ELSE sent1
  /\ NothingAnswered
  /\ UNCHANGED <<url, lastStatus>>
  /\ UNCHANGED <<app, ui>>
  /\ UNCHANGED <<accessTok, refreshTok, isRefreshing, refreshSubscribers,
                 microtasks, retry, resp, err, issued, n401>>
  /\ UNCHANGED <<calls, nPart, part, enqNo, tok1, stampAt, led1, outcomes,
                 written>>

\* a 2xx response: the response interceptor passes it on and the public
\* operation returns response.data
Respond200(r) ==
  /\ Macrotask
  /\ pc[r] = "inflight"
  /\ pc' = [pc EXCEPT ![r] = "done"]
  /\ Returns(r, Body)
  /\ Forgets(r)
  /\ Answers(r, 200)
  /\ lastStatus' = [lastStatus EXCEPT ![r] = <<>>]
  /\ NothingSent
  /\ UNCHANGED <<sent1>>
  /\ UNCHANGED <<app, ui>>
  /\ UNCHANGED <<accessTok, refreshTok, isRefreshing, refreshSubscribers,
                 microtasks, issued, n401>>
  /\ UNCHANGED hist

\* error.response?.status === 401 && !originalRequest._retry
EntersRecovery(r, st) == st = 401 /\ ~retry[r]

\* if (this.isRefreshing)
RefreshInProgress_Never == FALSE

RefreshInProgress_QueueOnly == isRefreshing /\ refreshSubscribers # <<>>

RefreshInProgress == isRefreshing

\* observation of the 401 of a first attempt
RecordFirst401(r) ==
  IF att[r] = 1
    THEN /\ tok1' = [tok1 EXCEPT ![r] = hdr[r]]
         /\ stampAt' = [stampAt EXCEPT ![r] = Len(outcomes)]
    ELSE UNCHANGED <<tok1, stampAt>>

\* this.refreshSubscribers.push(...)
Push_Front(subs, c) == <<c>> \o subs

Push(subs, c) == Append(subs, c)

\* a 401 handled while a refresh is in progress: the continuation is pushed
\* on refreshSubscribers and the request waits
Respond401Queue(r) ==
  /\ Macrotask
  /\ pc[r] = "inflight"
  /\ n401 < Max401
  /\ EntersRecovery(r, 401)
  /\ RefreshInProgress
  /\ n401' = n401 + 1
  /\ refreshSubscribers' = Push(refreshSubscribers, r)
  /\ pc' = [pc EXCEPT ![r] = "queued"]
  /\ enqNo' = [enqNo EXCEPT ![r] = n401']
  /\ RecordFirst401(r)
  /\ Silent
  /\ Answers(r, 401)
  /\ lastStatus' = [lastStatus EXCEPT ![r] = <<401>>]
  /\ NothingSent
  /\ UNCHANGED <<url, sent1>>
  /\ UNCHANGED <<app, ui>>
  /\ UNCHANGED <<accessTok, refreshTok, isRefreshing, microtasks, retry, hdr,
                 resp, err, issued>>
  /\ UNCHANGED <<calls, att, nPart, part, led1, outcomes, written>>

\* a 401 handled while no refresh is in progress: the request becomes the
\* leader, sets _retry and isRefreshing and awaits the stored refresh token
Respond401Refresh(r) ==
  /\ Macrotask
  /\ pc[r] = "inflight"
  /\ n401 < Max401
  /\ EntersRecovery(r, 401)
  /\ ~RefreshInProgress
  /\ n401' = n401 + 1
  /\ retry' = [retry EXCEPT ![r] = TRUE]
  /\ isRefreshing' = TRUE
  /\ pc' = [pc EXCEPT ![r] = "refreshRead"]
  /\ RecordFirst401(r)
  /\ Silent
  /\ Answers(r, 401)
  /\ lastStatus' = [lastStatus EXCEPT ![r] = <<401>>]
  /\ NothingSent
  /\ UNCHANGED <<url, sent1>>
  /\ UNCHANGED <<app, ui>>
  /\ UNCHANGED <<accessTok, refreshTok, refreshSubscribers, microtasks, hdr,
                 resp, err, issued>>
  /\ UNCHANGED <<calls, att, nPart, part, enqNo, led1, outcomes, written>>

\* any other failure (another status, no response, or a 401 of a request
\* that has _retry set): rejected with an ApiError
RespondOther(r, st) ==
  /\ Macrotask
  /\ pc[r] = "inflight"
  /\ st = 401 => n401 < Max401
  /\ ~EntersRecovery(r, st)
  /\ n401' = IF st = 401 THEN n401 + 1 ELSE n401
  /\ pc' = [pc EXCEPT ![r] = "done"]
  /\ Returns(r, handleError(ApiError(StatusOr500(st))))
  /\ Forgets(r)
  /\ Answers(r, st)
  /\ lastStatus' = [lastStatus EXCEPT ![r] = <<>>]
  /\ NothingSent
  /\ UNCHANGED <<sent1>>
  /\ UNCHANGED <<app, ui>>
  /\ UNCHANGED <<accessTok, refreshTok, isRefreshing, refreshSubscribers,
                 microtasks, issued>>
  /\ UNCHANGED hist

\* if (!refreshToken), negated
HasRefreshToken_Always == TRUE

HasRefreshToken == refreshTok # 0

\* const refreshToken = await SecureStore.getItemAsync(AUTH_REFRESH_TOKEN_KEY):
\* without a refresh token the leader throws and starts clearTokens, with one
\* it calls this.instance.post('/auth/refresh-token'), whose request
\* interceptor awaits the stored access token
ReadRefreshToken(r) ==
  /\ Macrotask
  /\ pc[r] = "refreshRead"
  /\ IF ~HasRefreshToken
       THEN /\ err' = [err EXCEPT ![r] = PlainError]
            /\ pc' = [pc EXCEPT ![r] = "clear1"]
       ELSE /\ pc' = [pc EXCEPT ![r] = "refreshAttach"]
            /\ UNCHANGED err
  /\ Silent
  /\ NothingAnswered
  /\ NothingSent
  /\ UNCHANGED <<url, lastStatus, sent1>>
  /\ UNCHANGED <<app, ui>>
  /\ UNCHANGED <<accessTok, refreshTok, isRefreshing, refreshSubscribers,
                 microtasks, retry, hdr, resp, issued, n401>>
  /\ UNCHANGED hist

\* request interceptor of the refresh request, after the await: the refresh
\* call is dispatched
RefreshAttach(r) ==
  /\ Macrotask
  /\ pc[r] = "refreshAttach"
  /\ pc' = [pc EXCEPT ![r] = "refreshInflight"]
  /\ calls' = calls + 1
  /\ led1' = [led1 EXCEPT ![r] = @ \/ att[r] = 1]
  /\ Silent
  /\ wire' = <<[req |-> RefreshReq, url |-> RefreshPath,
               auth |-> AttachHeader(0)]>>
  /\ NothingAnswered
  /\ UNCHANGED <<url, lastStatus, sent1>>
  /\ UNCHANGED <<app, ui>>
  /\ UNCHANGED <<accessTok, refreshTok, isRefreshing, refreshSubscribers,
                 microtasks, retry, hdr, resp, err, issued, n401>>
  /\ UNCHANGED <<att, nPart, part, enqNo, tok1, stampAt, outcomes, written>>

\* the backend answers the refresh call with a new token pair
Refresh200(r) ==
  /\ Macrotask
  /\ pc[r] = "refreshInflight"
  /\ issued' = issued + 1
  /\ resp' = [resp EXCEPT ![r] = issued + 1]
  /\ pc' = [pc EXCEPT ![r] = "store1"]
  /\ Silent
  /\ Answers(RefreshReq, 200)
  /\ lastStatus' = [lastStatus EXCEPT ![r] = <<200>>]
  /\ NothingSent
  /\ UNCHANGED <<url, sent1>>
  /\ UNCHANGED <<app, ui>>
  /\ UNCHANGED <<accessTok, refreshTok, isRefreshing, refreshSubscribers,
                 microtasks, retry, hdr, err, n401>>
  /\ UNCHANGED hist

\* the backend answers the refresh call with 401: the response interceptor
\* runs on the refresh request, whose configuration has no _retry.  With
\* isRefreshing set (the leader set it) its continuation is pushed on
\* refreshSubscribers and the awaited post never settles
Refresh401(r) ==
  /\ Macrotask
  /\ pc[r] = "refreshInflight"
  /\ n401 < Max401
  /\ RefreshInProgress
  /\ n401' = n401 + 1
  /\ refreshSubscribers' = Push(refreshSubscribers, RefreshReq)
  /\ pc' = [pc EXCEPT ![r] = "refreshQueued"]
  /\ Silent
  /\ Answers(RefreshReq, 401)
  /\ lastStatus' = [lastStatus EXCEPT ![r] = <<401>>]
  /\ NothingSent
  /\ UNCHANGED <<url, sent1>>
  /\ UNCHANGED <<app, ui>>
  /\ UNCHANGED <<accessTok, refreshTok, isRefreshing, microtasks, retry, hdr,
                 resp, err, issued>>
  /\ UNCHANGED hist

\* the refresh call fails otherwise: the response interceptor rejects it
\* with an ApiError, the leader catches it and starts clearTokens
RefreshOther(r, st) ==
  /\ Macrotask
  /\ pc[r] = "refreshInflight"
  /\ st \in OtherStatuses
  /\ err' = [err EXCEPT ![r] = ApiError(StatusOr500(st))]
  /\ pc' = [pc EXCEPT ![r] = "clear1"]
  /\ Silent
  /\ Answers(RefreshReq, st)
  /\ lastStatus' = [lastStatus EXCEPT ![r] = <<st>>]
  /\ NothingSent
  /\ UNCHANGED <<url, sent1>>
  /\ UNCHANGED <<app, ui>>
  /\ UNCHANGED <<accessTok, refreshTok, isRefreshing, refreshSubscribers,
                 microtasks, retry, hdr, resp, issued, n401>>
  /\ UNCHANGED hist

\* the value written by setItemAsync(AUTH_TOKEN_KEY, access_token)
StoredAccess_Stale(r) == accessTok

StoredAccess(r) == resp[r]

\* the value written by setItemAsync(AUTH_REFRESH_TOKEN_KEY, refresh_token)
StoredRefresh_Stale(r) == refreshTok

StoredRefresh(r) == resp[r]

\* await SecureStore.setItemAsync(AUTH_TOKEN_KEY, access_token)
Store1(r) ==
  /\ Macrotask
  /\ pc[r] = "store1"
  /\ accessTok' = StoredAccess(r)
  /\ written' = IF accessTok' > written THEN accessTok' ELSE written
  /\ pc' = [pc EXCEPT ![r] = "store2"]
  /\ Silent
  /\ NothingAnswered
  /\ NothingSent
  /\ UNCHANGED <<url, lastStatus, sent1>>
  /\ UNCHANGED <<app, ui>>
  /\ UNCHANGED <<refreshTok, isRefreshing, refreshSubscribers, microtasks,
                 retry, hdr, resp, err, issued, n401>>
  /\ UNCHANGED <<calls, att, nPart, part, enqNo, tok1, stampAt, led1,
                 outcomes>>

\* the requests whose continuation is in the queue, in queue order
Waiting(subs) == SelectSeq(subs, LAMBDA c : c \in Reqs)

\* await SecureStore.setItemAsync(AUTH_REFRESH_TOKEN_KEY, refresh_token), then
\* synchronously: set the leader's header, call every subscriber (each sets
\* its header and resolves its promise), empty the queue, start the leader's
\* replay (its request interceptor awaits the store) and, in the finally
\* block, clear isRefreshing
Store2(r) ==
  /\ Macrotask
  /\ pc[r] = "store2"
  /\ refreshTok' = StoredRefresh(r)
  /\ hdr' = [q \in Reqs |->
              IF q = r \/ q \in Range(refreshSubscribers)
                THEN resp[r] ELSE hdr[q]]
  /\ pc' = [q \in Reqs |->
              IF q = r THEN "attach"
              ELSE IF q \in Range(refreshSubscribers) THEN "resumed"
              ELSE pc[q]]
  /\ microtasks' = Waiting(refreshSubscribers)
  /\ refreshSubscribers' = <<>>
  /\ isRefreshing' = FALSE
  /\ part' = [q \in Reqs |->
               IF q = r \/ q \in Range(refreshSubscribers)
                 THEN resp[r] ELSE part[q]]
  /\ nPart' = [q \in Reqs |->
                IF q = r \/ q \in Range(refreshSubscribers)
                  THEN nPart[q] + 1 ELSE nPart[q]]
  /\ outcomes' = Append(outcomes, "ok")
  /\ Silent
  /\ NothingAnswered
  /\ NothingSent
  /\ UNCHANGED <<url, lastStatus, sent1>>
  /\ UNCHANGED <<app, ui>>
  /\ UNCHANGED <<accessTok, retry, resp, err, issued, n401>>
  /\ UNCHANGED <<calls, att, enqNo, tok1, stampAt, led1, written>>

\* .then((token) => this.instance(originalRequest)): the replay of a queued
\* request is initiated; its request interceptor awaits the store
ResumeReplay(r) ==
  /\ microtasks # <<>>
  /\ r = Head(microtasks)
  /\ microtasks' = Tail(microtasks)
  /\ pc' = [pc EXCEPT ![r] = "attach"]
  /\ Silent
  /\ NothingAnswered
  /\ NothingSent
  /\ UNCHANGED <<url, lastStatus, sent1>>
  /\ UNCHANGED <<app, ui>>
  /\ UNCHANGED <<accessTok, refreshTok, isRefreshing, refreshSubscribers,
                 retry, hdr, resp, err, issued, n401>>
  /\ UNCHANGED hist

\* clearTokens: await SecureStore.deleteItemAsync(AUTH_TOKEN_KEY)
Clear1(r) ==
  /\ Macrotask
  /\ pc[r] = "clear1"
  /\ accessTok' = 0
  /\ pc' = [pc EXCEPT ![r] = "clear2"]
  /\ Silent
  /\ NothingAnswered
  /\ NothingSent
  /\ UNCHANGED <<url, lastStatus, sent1>>
  /\ UNCHANGED <<app, ui>>
  /\ UNCHANGED <<refreshTok, isRefreshing, refreshSubscribers, microtasks,
                 retry, hdr, resp, err, issued, n401>>
  /\ UNCHANGED hist

\* clearTokens: await SecureStore.deleteItemAsync(AUTH_REFRESH_TOKEN_KEY), then
\* return Promise.reject(refreshError), the finally block clears isRefreshing
\* and the public operation throws handleError(refreshError)
Clear2(r) ==
  /\ Macrotask
  /\ pc[r] = "clear2"
  /\ refreshTok' = 0
  /\ isRefreshing' = FALSE
  /\ pc' = [pc EXCEPT ![r] = "done"]
  /\ Returns(r, handleError(err[r]))
  /\ outcomes' = Append(outcomes, "fail")
  /\ Forgets(r)
  /\ lastStatus' = [lastStatus EXCEPT ![r] = <<>>]
  /\ NothingAnswered
  /\ NothingSent
  /\ UNCHANGED <<sent1>>
  /\ UNCHANGED <<app, ui>>
  /\ UNCHANGED <<accessTok, refreshSubscribers, microtasks, issued, n401>>
  /\ UNCHANGED <<calls, att, nPart, part, enqNo, tok1, stampAt, led1,
                 written>>

\* AuthProvider.logout -> authService.logout: apiService.post('/auth/logout')
\* starts the request interceptor, which awaits SecureStore.getItemAsync
Logout(r) ==
  /\ Macrotask
  /\ logoutPc = "none"
  /\ pc[r] = "idle"
  /\ NumberedByCall(r)
  /\ pc' = [pc EXCEPT ![r] = "attach"]
  /\ url' = [url EXCEPT ![r] = LogoutPath]
  /\ logoutReq' = r
  /\ logoutPc' = "post"
  /\ Silent
  /\ NothingAnswered
  /\ NothingSent
  /\ UNCHANGED <<accessTok, refreshTok, isRefreshing, refreshSubscribers,
                 microtasks, retry, hdr, resp, err, issued, n401,
                 ctxAuthenticated, checkAuthPc>>
  /\ isLoading' = TRUE
  /\ effects' = Mounted(segments)
  /\ guardRun' = <<>>
  /\ UNCHANGED hist
  /\ UNCHANGED <<lastStatus, sent1>>
  /\ UNCHANGED <<query, otp, segments, login>>

\* authService.logout, finally block: the post has returned or thrown (the
\* error is ignored); clearTokens: await deleteItemAsync(AUTH_TOKEN_KEY)
LogoutClear1 ==
  /\ Macrotask
  /\ logoutPc = "post"
  /\ pc[logoutReq] = "done"
  /\ accessTok' = 0
  /\ logoutPc' = "clear2"
  /\ Silent
  /\ NothingAnswered
  /\ NothingSent
  /\ UNCHANGED <<refreshTok, isRefreshing, refreshSubscribers, microtasks, pc,
                 url, retry, hdr, resp, err, issued, n401, ctxAuthenticated,
                 isLoading, checkAuthPc, logoutReq>>
  /\ UNCHANGED hist
  /\ UNCHANGED <<lastStatus, sent1>>
  /\ UNCHANGED ui

\* clearTokens: await deleteItemAsync(AUTH_REFRESH_TOKEN_KEY);
\* authService.logout returns and AuthProvider.logout calls
\* setIsAuthenticated(false) and router.replace('/auth/login')
LogoutClear2 ==
  /\ Macrotask
  /\ logoutPc = "clear2"
  /\ refreshTok' = 0
  /\ ctxAuthenticated' = FALSE
  /\ isLoading' = FALSE
  /\ segments' = LogoutTarget
  /\ effects' = Mounted(LogoutTarget)
  /\ guardRun' = <<>>
  /\ logoutPc' = "out"
  /\ Silent
  /\ NothingAnswered
  /\ NothingSent
  /\ UNCHANGED <<accessTok, isRefreshing, refreshSubscribers, microtasks, pc,
                 url, retry, hdr, resp, err, issued, n401, logoutReq,
                 checkAuthPc>>
  /\ UNCHANGED hist
  /\ UNCHANGED <<lastStatus, sent1>>
  /\ UNCHANGED <<query, otp, login>>

Next ==
  \E r \in Reqs :
    \/ Call(r)
    \/ Attach(r)
    \/ Respond200(r)
    \/ Respond401Queue(r)
    \/ Respond401Refresh(r)
    \/ \E st \in OtherStatuses \cup {401} : RespondOther(r, st)
    \/ ReadRefreshToken(r)
    \/ RefreshAttach(r)
    \/ Refresh200(r)
    \/ Refresh401(r)
    \/ \E st \in OtherStatuses : RefreshOther(r, st)
    \/ Store1(r)
    \/ Store2(r)
    \/ ResumeReplay(r)
    \/ Clear1(r)
    \/ Clear2(r)
    \/ Logout(r)
    \/ LogoutClear1
    \/ LogoutClear2

Spec == Init /\ [][Next]_vars

\* every step but a new call or a logout from the UI: storage operations
\* complete, HTTP exchanges end and microtasks run
Progress ==
  \E r \in Reqs :
    \/ Attach(r)
    \/ Respond200(r)
    \/ Respond401Queue(r)
    \/ Respond401Refresh(r)
    \/ \E st \in OtherStatuses \cup {401} : RespondOther(r, st)
    \/ ReadRefreshToken(r)
    \/ RefreshAttach(r)
    \/ Refresh200(r)
    \/ Refresh401(r)
    \/ \E st \in OtherStatuses : RefreshOther(r, st)
    \/ Store1(r)
    \/ Store2(r)
    \/ ResumeReplay(r)
    \/ Clear1(r)
    \/ Clear2(r)
    \/ LogoutClear1
    \/ LogoutClear2

FairSpec == Init /\ [][Next]_vars /\ WF_vars(Progress)

TypeOK ==
  /\ accessTok \in Nat /\ refreshTok \in Int
  /\ isRefreshing \in BOOLEAN
  /\ pc \in [Reqs -> {"idle", "attach", "inflight", "queued", "resumed",
                      "refreshRead", "refreshAttach", "refreshInflight",
                      "refreshQueued", "store1", "store2", "clear1", "clear2",
                      "done"}]
  /\ n401 \in 0..Max401
  /\ ctxAuthenticated \in BOOLEAN
  /\ logoutReq \in Reqs \cup {0}
  /\ logoutPc \in {"none", "post", "clear2", "out"}
  /\ url \in [Reqs -> {NoUrl, Resource, LogoutPath, VerifyPath}]
  /\ verifyPc \in {"none", "post", "resolved", "rejected", "set1", "set2"}

\* ------------------------------------------- the company profile query

\* the statuses an ApiError of the profile fetch can carry: a 401 that did
\* not enter the recovery path, a 404, and the 500 of a failure that had no
\* status of its own
ErrorStatuses == {401, 404, 500}

ProfileScreens == {"CompanyProfileScreen", "DashboardScreen"}

\* CompanyProfileScreen: the retry option of useQuery
retry_CompanyProfileScreen_Inclusive(count, error) ==
  IF error.status = 404 THEN FALSE ELSE count <= 3

retry_CompanyProfileScreen(count, error) ==
  IF error.status = 404 THEN FALSE ELSE count < 3

\* DashboardScreen: the retry option of useQuery
retry_DashboardScreen(count, error) == count < 3 /\ error.status # 404

\* the retry option the query runs with
shouldRetry(count, error) ==
  IF qScreen = "CompanyProfileScreen"
    THEN retry_CompanyProfileScreen(count, error)
    ELSE retry_DashboardScreen(count, error)

\* a screen mounts, or the query is fetched again: queryFn is called, with
\* the retryer's count at zero
QueryFetch(screen) ==
  /\ qState \in {"idle", "success", "error"}
  /\ qScreen' = screen
  /\ qState' = "fetching"
  /\ failureCount' = 0
  /\ qError' = NoError
  /\ retries' = 0
  /\ qFailures' = <<>>
  /\ UNCHANGED notQuery

\* companyProfileService.getProfile() resolves
QuerySucceeds ==
  /\ qState = "fetching"
  /\ qState' = "success"
  /\ qError' = NoError
  /\ UNCHANGED <<qScreen, failureCount, retries, qFailures>>
  /\ UNCHANGED notQuery

\* companyProfileService.getProfile() rejects with an ApiError
QueryFails(st) ==
  /\ qState = "fetching"
  /\ qState' = "failed"
  /\ qError' = ApiError(st)
  /\ qFailures' = Append(qFailures, st)
  /\ UNCHANGED <<qScreen, failureCount, retries>>
  /\ UNCHANGED notQuery

\* the retryer asks the retry option, with the number of attempts that had
\* failed before this one, and fetches again or gives the error to the screen
QueryDecide ==
  /\ qState = "failed"
  /\ IF shouldRetry(failureCount, qError)
       THEN /\ failureCount' = failureCount + 1
            /\ retries' = retries + 1
            /\ qState' = "fetching"
       ELSE /\ qState' = "error"
            /\ UNCHANGED <<failureCount, retries>>
  /\ UNCHANGED <<qScreen, qError, qFailures>>
  /\ UNCHANGED notQuery

QueryNext ==
  \/ \E screen \in ProfileScreens : QueryFetch(screen)
  \/ QuerySucceeds
  \/ \E st \in ErrorStatuses : QueryFails(st)
  \/ QueryDecide

QuerySpec == Init /\ [][QueryNext]_vars

\* ------------------------------------------------------ the login screen

\* useState<number>(30)
InitialCountdown == 30

\* setCountdown(30) in handleResendOTP
ResendCountdown == 30

\* time passes
Elapsed(d) ==
  IF sinceRequest + d > MaxElapsed THEN MaxElapsed ELSE sinceRequest + d

\* the delays, in seconds, with which a 1000 ms interval fires
TickDelays == {1, 2}

\* LoginScreen.handleEmailSubmit: requestOTP(submittedEmail) is called
EmailSubmit ==
  /\ loginStep = "email"
  /\ loginStep' = "requesting"
  /\ sinceRequest' = 0
  /\ UNCHANGED countdown
  /\ UNCHANGED notOtp

\* requestOTP resolves: setStep('otp'), and OTPVerification mounts
EmailRequestDone ==
  /\ loginStep = "requesting"
  /\ loginStep' = "otp"
  /\ countdown' = InitialCountdown
  /\ UNCHANGED sinceRequest
  /\ UNCHANGED notOtp

\* requestOTP rejects: the email form stays
EmailRequestFails ==
  /\ loginStep = "requesting"
  /\ loginStep' = "email"
  /\ UNCHANGED <<countdown, sinceRequest>>
  /\ UNCHANGED notOtp

\* the interval set by the effect fires: setCountdown((prev) => prev - 1)
CountdownTick(d) ==
  /\ loginStep = "otp"
  /\ countdown > 0
  /\ countdown' = countdown - 1
  /\ sinceRequest' = Elapsed(d)
  /\ UNCHANGED loginStep
  /\ UNCHANGED notOtp

\* a second passes with no interval set, or before the form is shown
Wait ==
  /\ loginStep = "requesting" \/ (loginStep = "otp" /\ countdown = 0)
  /\ sinceRequest < MaxElapsed
  /\ sinceRequest' = Elapsed(1)
  /\ UNCHANGED <<loginStep, countdown>>
  /\ UNCHANGED notOtp

\* OTPVerification.handleResendOTP: onResendOTP() calls requestOTP(email)
ResendOTP ==
  /\ loginStep = "otp"
  /\ countdown = 0
  /\ sinceRequest' = 0
  /\ countdown' = ResendCountdown
  /\ UNCHANGED loginStep
  /\ UNCHANGED notOtp

\* LoginScreen.handleBackToEmail: setStep('email') unmounts OTPVerification
BackToEmail ==
  /\ loginStep = "otp"
  /\ loginStep' = "email"
  /\ UNCHANGED <<countdown, sinceRequest>>
  /\ UNCHANGED notOtp

OtpNext ==
  \/ EmailSubmit
  \/ EmailRequestDone
  \/ EmailRequestFails
  \/ \E d \in TickDelays : CountdownTick(d)
  \/ Wait
  \/ ResendOTP
  \/ BackToEmail

OtpSpec == Init /\ [][OtpNext]_vars

\* ----------------------------------------------------- the route guards

\* the app is opened on a route, on a device with or without tokens: the
\* AuthProvider mounts with isLoading set and starts checkAuth, and every
\* layout of the route has its effect to run
GuardInit ==
  \E tok \in {0, 1}, route \in Routes :
    /\ Installed(tok, FALSE)
    /\ QueryInit
    /\ OtpInit
    /\ VerifyInit
    /\ segments = route
    /\ effects = Mounted(route)
    /\ guardRun = <<>>

\* segments[i], undefined past the end
Segment(i) == IF i <= Len(segments) THEN segments[i] ELSE "undefined"

\* AuthProvider.checkAuth: await authService.isAuthenticated()
CheckAuthRead ==
  /\ checkAuthPc = "read"
  /\ checkAuthPc' = IF isAuthenticated THEN "true" ELSE "false"
  /\ guardRun' = <<>>
  /\ UNCHANGED <<ctxAuthenticated, isLoading, segments, effects>>
  /\ UNCHANGED notNav

\* AuthProvider.checkAuth: setIsAuthenticated(authenticated) and, in the
\* finally block, setIsLoading(false)
CheckAuthDone ==
  /\ checkAuthPc \in {"true", "false"}
  /\ ctxAuthenticated' = (checkAuthPc = "true")
  /\ isLoading' = FALSE
  /\ checkAuthPc' = "done"
  /\ effects' = Mounted(segments)
  /\ guardRun' = <<>>
  /\ UNCHANGED segments
  /\ UNCHANGED notNav

\* no redirect
Stay == <<>>

\* the effect of layout g has run and called router.replace(to), or has
\* returned without (Stay): a new route mounts its layouts and changes the
\* dependencies of every effect
Guarded(g, to) ==
  /\ g \in effects
  /\ guardRun' = <<[by |-> g, to |-> to]>>
  /\ IF to = Stay \/ to = segments
       THEN /\ effects' = effects \ {g}
            /\ UNCHANGED segments
       ELSE /\ segments' = to
            /\ effects' = Mounted(to)
  /\ UNCHANGED <<ctxAuthenticated, isLoading, checkAuthPc>>
  /\ UNCHANGED notNav

\* RootLayoutNav: the redirect of its effect
RootRedirect ==
  IF isLoading THEN Stay
  ELSE IF /\ ctxAuthenticated
          /\ Segment(1) = "(auth)"
          /\ Segment(2) # "google-callback" THEN Home
  ELSE IF ~ctxAuthenticated /\ Segment(1) # "(auth)" THEN Login
  ELSE Stay

\* AuthLayout: the redirect of its effect
AuthRedirect ==
  IF isLoading THEN Stay
  ELSE IF ctxAuthenticated THEN Home
  ELSE Stay

\* MainLayout: the redirect of its effect
MainRedirect ==
  IF isLoading THEN Stay
  ELSE IF ~ctxAuthenticated THEN Login
  ELSE Stay

RootGuard == Guarded("root", RootRedirect)

AuthGuard == Guarded("auth", AuthRedirect)

MainGuard == Guarded("main", MainRedirect)

\* a deep link or the user opens a route
OpenRoute(route) ==
  /\ route # segments
  /\ segments' = route
  /\ effects' = Mounted(route)
  /\ guardRun' = <<>>
  /\ UNCHANGED <<ctxAuthenticated, isLoading, checkAuthPc>>
  /\ UNCHANGED notNav

GuardNext ==
  \/ CheckAuthRead
  \/ CheckAuthDone
  \/ RootGuard
  \/ AuthGuard
  \/ MainGuard
  \/ \E route \in Routes : OpenRoute(route)

GuardSpec == GuardInit /\ [][GuardNext]_vars

\* ------------------------------------------------------------ verifyOTP

\* the callers of authService.verifyOTP: AuthProvider.verifyOTP and the
\* verifyOTP of the OTP form
VerifyCallers == {"AuthProvider", "OTPVerification"}

\* response.refresh_token || response.access_token: an access token kept
\* under the refresh key is told from the refresh token of the same pair
AccessTokenAsRefresh(k) == 0 - k

RefreshTokenToStore(body) ==
  IF body.refresh # 0 THEN body.refresh ELSE AccessTokenAsRefresh(body.access)

\* if (response.access_token)
HasAccessToken(body) == body.access # 0

\* a fresh installation showing the login screen: nothing is stored, and
\* checkAuth has found the user not authenticated
LoginInit ==
  /\ Installed(0, TRUE)
  /\ QueryInit
  /\ OtpInit
  /\ VerifyInit
  /\ segments = Login
  /\ effects = {}
  /\ guardRun = <<>>

\* verifyOTP is called from the login screen (AuthProvider.verifyOTP first
\* calls setIsLoading(true)); authService.verifyOTP:
\* apiService.post('/auth/verify-otp') starts the request interceptor
Verify(r, by) ==
  /\ Macrotask
  /\ segments = Login
  /\ verifyPc = "none"
  /\ pc[r] = "idle"
  /\ NumberedByCall(r)
  /\ pc' = [pc EXCEPT ![r] = "attach"]
  /\ url' = [url EXCEPT ![r] = VerifyPath]
  /\ verifyReq' = r
  /\ verifyBy' = by
  /\ verifyBody' = NoTokens
  /\ verifyPc' = "post"
  /\ result' = NoResult
  /\ NothingAnswered
  /\ NothingSent
  /\ IF by = "AuthProvider"
       THEN isLoading' = TRUE /\ effects' = Mounted(segments)
       ELSE UNCHANGED <<isLoading, effects>>
  /\ guardRun' = <<>>
  /\ UNCHANGED <<accessTok, refreshTok, isRefreshing, refreshSubscribers,
                 microtasks, retry, hdr, resp, err, issued, n401,
                 ctxAuthenticated, checkAuthPc, logoutReq, logoutPc>>
  /\ UNCHANGED hist
  /\ UNCHANGED <<lastStatus, sent1>>
  /\ UNCHANGED <<query, otp, segments>>

\* authService.verifyOTP returns: the OTP form does nothing more, and
\* AuthProvider.verifyOTP calls setIsAuthenticated(true) and
\* router.replace('/'), and setIsLoading(false) in its finally block
VerifyReturns ==
  /\ verifyPc' = "none"
  /\ guardRun' = <<>>
  /\ IF verifyBy = "AuthProvider"
       THEN /\ ctxAuthenticated' = TRUE
            /\ isLoading' = FALSE
            /\ segments' = Home
            /\ effects' = Mounted(Home)
       ELSE UNCHANGED <<ctxAuthenticated, isLoading, segments, effects>>

\* the post has resolved with a response that has an access token (with or
\* without a refresh token): setTokens is called, which awaits
\* SecureStore.setItemAsync(AUTH_TOKEN_KEY, accessToken)
VerifyStores(withRefresh) ==
  /\ verifyPc = "resolved"
  /\ LET body == [access |-> issued + 1,
                  refresh |-> IF withRefresh THEN issued + 1 ELSE 0]
     IN /\ HasAccessToken(body)
        /\ verifyBody' = body
  /\ issued' = issued + 1
  /\ verifyPc' = "set1"
  /\ result' = NoResult
  /\ NothingAnswered
  /\ NothingSent
  /\ guardRun' = <<>>
  /\ UNCHANGED <<accessTok, refreshTok, isRefreshing, refreshSubscribers,
                 microtasks, pc, url, retry, hdr, resp, err, n401,
                 logoutReq, logoutPc>>
  /\ UNCHANGED <<ctxAuthenticated, isLoading, checkAuthPc>>
  /\ UNCHANGED hist
  /\ UNCHANGED <<lastStatus, sent1>>
  /\ UNCHANGED <<query, otp, segments, effects, verifyReq, verifyBy>>

\* the post has resolved with a response that has no access token: nothing
\* is stored and authService.verifyOTP returns the response
VerifyStoresNothing ==
  /\ verifyPc = "resolved"
  /\ ~HasAccessToken(NoTokens)
  /\ verifyBody' = NoTokens
  /\ VerifyReturns
  /\ result' = NoResult
  /\ NothingAnswered
  /\ NothingSent
  /\ UNCHANGED <<accessTok, refreshTok, isRefreshing, refreshSubscribers,
                 microtasks, pc, url, retry, hdr, resp, err, issued, n401,
                 logoutReq, logoutPc, checkAuthPc>>
  /\ UNCHANGED hist
  /\ UNCHANGED <<lastStatus, sent1>>
  /\ UNCHANGED <<query, otp, verifyReq, verifyBy>>

\* the post has rejected: authService.verifyOTP throws; the caller keeps the
\* message, and AuthProvider.verifyOTP calls setIsLoading(false)
VerifyThrows ==
  /\ verifyPc = "rejected"
  /\ verifyPc' = "none"
  /\ IF verifyBy = "AuthProvider"
       THEN isLoading' = FALSE /\ effects' = Mounted(segments)
       ELSE UNCHANGED <<isLoading, effects>>
  /\ guardRun' = <<>>
  /\ result' = NoResult
  /\ NothingAnswered
  /\ NothingSent
  /\ UNCHANGED <<accessTok, refreshTok, isRefreshing, refreshSubscribers,
                 microtasks, pc, url, retry, hdr, resp, err, issued, n401,
                 logoutReq, logoutPc, ctxAuthenticated, checkAuthPc>>
  /\ UNCHANGED hist
  /\ UNCHANGED <<lastStatus, sent1>>
  /\ UNCHANGED <<query, otp, segments, login>>

\* setTokens: setItemAsync(AUTH_TOKEN_KEY, accessToken) completes, and
\* setItemAsync(AUTH_REFRESH_TOKEN_KEY, refreshToken) is awaited
VerifySet1 ==
  /\ Macrotask
  /\ verifyPc = "set1"
  /\ accessTok' = verifyBody.access
  /\ written' = verifyBody.access
  /\ verifyPc' = "set2"
  /\ result' = NoResult
  /\ NothingAnswered
  /\ NothingSent
  /\ UNCHANGED <<refreshTok, isRefreshing, refreshSubscribers, microtasks, pc,
                 url, retry, hdr, resp, err, issued, n401, logoutReq,
                 logoutPc>>
  /\ UNCHANGED <<ctxAuthenticated, isLoading, checkAuthPc>>
  /\ UNCHANGED <<calls, att, nPart, part, enqNo, tok1, stampAt, led1,
                 outcomes>>
  /\ UNCHANGED <<lastStatus, sent1>>
  /\ UNCHANGED ui

\* setTokens: setItemAsync(AUTH_REFRESH_TOKEN_KEY, refreshToken) completes
\* and authService.verifyOTP returns the response
VerifySet2 ==
  /\ Macrotask
  /\ verifyPc = "set2"
  /\ refreshTok' = RefreshTokenToStore(verifyBody)
  /\ VerifyReturns
  /\ result' = NoResult
  /\ NothingAnswered
  /\ NothingSent
  /\ UNCHANGED <<accessTok, isRefreshing, refreshSubscribers, microtasks, pc,
                 url, retry, hdr, resp, err, issued, n401, logoutReq,
                 logoutPc, checkAuthPc>>
  /\ UNCHANGED hist
  /\ UNCHANGED <<lastStatus, sent1>>
  /\ UNCHANGED <<query, otp, login>>

LoginNext ==
  \/ Next
  \/ \E r \in Reqs, by \in VerifyCallers : Verify(r, by)
  \/ \E withRefresh \in BOOLEAN : VerifyStores(withRefresh)
  \/ VerifyStoresNothing
  \/ VerifyThrows
  \/ VerifySet1
  \/ VerifySet2

LoginSpec == LoginInit /\ [][LoginNext]_vars

\* ----------------------------------------------------------------- claims

\* the 401 answer to a request of a caller is handled in this step
Handled401(r) ==
  pc[r] = "inflight" /\ pc'[r] # "inflight" /\ n401' = n401 + 1

\* the 401 answer to the refresh call is handled in this step
HandledRefresh401(r) ==
  pc[r] = "refreshInflight" /\ pc'[r] # "refreshInflight" /\ n401' = n401 + 1

\* the refresh calls in flight
RefreshInFlight == {r \in Reqs : pc[r] = "refreshInflight"}

\* the request joins the queue in this step and issues no refresh call
JoinsQueue(c) ==
  /\ refreshSubscribers' = Append(refreshSubscribers, c)
  /\ calls' = calls
  /\ c \in Reqs => pc'[c] = "queued"

\* C1, as stated: at most one refresh call is in flight, and every request
\* whose 401 is handled while isRefreshing is set joins refreshSubscribers
\* and issues no refresh call.  Fails for a request that already has _retry.
C1_AnyRequestJoinsQueue ==
  /\ [](Cardinality(RefreshInFlight) <= 1)
  /\ [][\A r \in Reqs : Handled401(r) /\ isRefreshing => JoinsQueue(r)]_vars

\* C1, amended: at most one refresh call is in flight, and every request
\* that has not been retried yet (_retry unset) and whose 401 is handled while
\* isRefreshing is set joins refreshSubscribers and issues no refresh call;
\* so does the refresh request itself
C1_SingleRefreshInFlight ==
  /\ [](Cardinality(RefreshInFlight) <= 1)
  /\ [][\A r \in Reqs :
          /\ Handled401(r) /\ isRefreshing /\ ~retry[r] => JoinsQueue(r)
          /\ HandledRefresh401(r) /\ isRefreshing
               => JoinsQueue(RefreshReq)]_vars

\* a request waits in the queue while the refresh call is in flight
C1_Witness ==
  \E r, q \in Reqs :
    pc[r] = "refreshInflight" /\ pc[q] = "queued"
    /\ q \in Range(refreshSubscribers)

\* the first attempts of r1 and r2 carried the same token and each drew a 401.
\* Two such calls were in flight together: the token leaves the store only
\* when a recovery ends or a logout deletes it, and the call that drew the
\* earlier 401 has not returned by then.
SameTokenWave(r1, r2) ==
  r1 # r2 /\ tok1[r1] # 0 /\ tok1[r1] = tok1[r2]

\* C2, as stated: of the calls in flight together with the same token that
\* each draw a 401, at most one issues a refresh call, whatever the order of
\* the answers.  Fails when a 401 is handled after the refresh has completed.
C2_OneRefreshAnyOrder ==
  \A r1, r2 \in Reqs : SameTokenWave(r1, r2) => ~(led1[r1] /\ led1[r2])

\* C2, amended: of the calls in flight together with the same token whose 401
\* answers are all handled before the recovery started by the first of them
\* has completed, at most one issues a refresh call
C2_OneRefreshPerWave ==
  \A r1, r2 \in Reqs :
    SameTokenWave(r1, r2) /\ stampAt[r1] = stampAt[r2]
      => ~(led1[r1] /\ led1[r2])

\* two calls of one wave: one has issued the refresh call, the other waits
C2_Witness ==
  \E r1, r2 \in Reqs :
    /\ SameTokenWave(r1, r2) /\ stampAt[r1] = stampAt[r2]
    /\ led1[r1] /\ ~led1[r2] /\ pc[r2] \in {"queued", "resumed"}
    /\ calls = 1

\* the refresh call of r has been answered with a failure (401, another
\* status, or no response)
RefreshFailed(r) ==
  \/ pc[r] = "refreshQueued"
  \/ pc[r] = "clear1" /\ err[r].kind = "ApiError"

\* the refresh call of r has been answered
RefreshAnswered(r) == pc[r] = "store1" \/ RefreshFailed(r)

\* C3: once the refresh call has failed, both entries are deleted from the
\* store, the caller that started the refresh is rejected and
\* isAuthenticated() is false.  Fails when the refresh call is answered 401.
C3_RefreshFailureLogsOut ==
  \A r \in Reqs :
    RefreshFailed(r) ~>
      (/\ accessTok = 0 /\ refreshTok = 0 /\ ~isAuthenticated
       /\ pc[r] = "done" /\ result.req = r /\ result.kind = "ApiError")

\* C4: when a refresh has failed and its handling is over, no continuation
\* that was queued behind it is still waiting.  Fails: the catch block does
\* not call the subscribers.
C4_QueuedRejectedOnFailure ==
  (~isRefreshing /\ outcomes # <<>> /\ outcomes[Len(outcomes)] = "fail")
    => (refreshSubscribers = <<>> /\ \A r \in Reqs : pc[r] # "queued")

\* C5: once the refresh call has been answered, isRefreshing is eventually
\* false.  Fails when the refresh call is answered 401.
C5_FlagEventuallyCleared ==
  \A r \in Reqs : RefreshAnswered(r) ~> ~isRefreshing

\* C7: a 401 drawn by a replay ends the call with ApiError 401: no queueing,
\* no second replay, no further refresh.  Fails for a request that waited in
\* the queue, which has no _retry.
C7_SingleRetryGuard ==
  [][\A r \in Reqs :
       Handled401(r) /\ att[r] >= 2
         => /\ pc'[r] = "done" /\ Returns(r, ApiError(401))
            /\ UNCHANGED <<isRefreshing, refreshSubscribers>>]_vars

\* C8: every call that has been made eventually returns or throws.  Fails
\* for the leader of a refresh answered 401 and for the requests queued
\* behind a refresh that failed.
C8_EveryCallSettles ==
  \A r \in Reqs : (pc[r] # "idle") ~> (pc[r] = "done")

\* the requests that wait in the queue
Queued == Range(Waiting(refreshSubscribers))

\* each participant of a successful refresh is dispatched once more
ReplayedOnce ==
  \A r \in Reqs :
    att[r] = nPart[r]
             + (IF pc[r] \in {"idle", "attach", "resumed"} THEN 0 ELSE 1)

\* the replay of r is in flight
ReplayInFlight(r) == pc[r] = "inflight" /\ att[r] >= 2

\* C6, as stated: every participant of a successful refresh is dispatched
\* exactly once more, and the replay carries the access token of that
\* refresh.  Fails when a later refresh has replaced the stored token before
\* the request interceptor of the replay has read the store.
C6_ReplayCarriesNewToken ==
  /\ ReplayedOnce
  /\ \A r \in Reqs : ReplayInFlight(r) => hdr[r] = part[r]

\* C6, amended: every participant of a successful refresh is dispatched
\* exactly once more, and the replay carries the access token of that refresh
\* or one that a later refresh has stored since; never an older token
C6_ReplayCarriesFreshToken ==
  /\ ReplayedOnce
  /\ \A r \in Reqs : ReplayInFlight(r) => hdr[r] >= part[r] /\ hdr[r] # 0

\* the leader and a queued request are both replayed with the new token
C6_Witness ==
  \E l, q \in Reqs :
    /\ retry[l] /\ ~retry[q]
    /\ ReplayInFlight(l) /\ ReplayInFlight(q)
    /\ att[l] = 2 /\ att[q] = 2
    /\ part[l] = 2 /\ part[q] = 2 /\ hdr[l] = 2 /\ hdr[q] = 2

\* the continuation of r is called in this step
Resumed(r) == pc[r] = "queued" /\ pc'[r] = "resumed"

\* the replay of r is dispatched in this step
ReplayDispatched(r) == pc[r] = "attach" /\ pc'[r] = "inflight" /\ att[r] >= 1

\* C9: on a successful refresh the flag stays set while the tokens are being
\* written; the continuations are called when both new tokens have been
\* written to the store (the access token in an earlier step, the refresh
\* token by the step that calls them), with the new access token; the flag is
\* cleared only when the queue has been resumed and emptied; no replay is
\* dispatched before the new access token has been written.  (A logout may
\* delete the new access token again before the continuations are called.)
C9_SuccessOrder ==
  /\ [](\A r \in Reqs :
          pc[r] \in {"store1", "store2"}
            => isRefreshing /\ \A q \in Queued : pc[q] = "queued")
  /\ [][\A r \in Reqs :
          Resumed(r)
            => /\ isRefreshing
               /\ written = part'[r] /\ accessTok \in {part'[r], 0}
               /\ refreshTok' = part'[r]
               /\ hdr'[r] = part'[r]]_vars
  /\ [][(isRefreshing /\ ~isRefreshing'
         /\ outcomes'[Len(outcomes')] = "ok")
          => /\ refreshSubscribers' = <<>>
             /\ \A q \in Queued : Resumed(q)
             /\ refreshTok' = written' /\ accessTok' \in {written', 0}]_vars
  /\ [][\A r \in Reqs : ReplayDispatched(r) => written >= part[r]]_vars

\* a refresh has succeeded: the store holds the new pair, a queued request
\* has been resumed with the new token and the flag is clear
C9_Witness ==
  \E r \in Reqs :
    /\ pc[r] = "resumed" /\ part[r] = 2 /\ hdr[r] = 2
    /\ accessTok = 2 /\ refreshTok = 2 /\ ~isRefreshing

\* C10: the replays of the continuations resumed by one refresh are initiated
\* in the order in which the continuations were enqueued
C10_FifoInitiation ==
  \A a, b \in Reqs :
    (part[a] = part[b] /\ part[a] # 0 /\ enqNo[a] < enqNo[b]
     /\ pc[a] = "resumed") => pc[b] = "resumed"

\* of two continuations resumed by one refresh, the replay of the one enqueued
\* first has been initiated and the other has not
C10_Witness ==
  \E a, b \in Reqs :
    /\ part[a] = part[b] /\ part[a] # 0
    /\ 0 < enqNo[a] /\ enqNo[a] < enqNo[b]
    /\ pc[a] = "attach" /\ att[a] = 1 /\ pc[b] = "resumed"

\* the request c (of a caller, or the refresh request) is dispatched in this
\* step, as a first attempt or as a replay
Dispatched(c) == wire' # <<>> /\ wire'[1].req = c

\* C11: a request that has been waiting for the store is dispatched, never
\* failed locally; dispatched while the store holds no access token it carries
\* no Authorization header, and dispatched while the store holds a token it
\* carries that token.  Fails for a replay dispatched after the store has been
\* emptied: the header set when the request was resumed is still sent.
C11_DispatchCarriesStoredToken ==
  [][\A c \in Reqs \cup {RefreshReq} :
       /\ Dispatched(c) => wire'[1].auth = accessTok
       /\ (c \in Reqs /\ pc[c] = "attach" /\ pc'[c] # "attach")
            => pc'[c] = "inflight" /\ Dispatched(c)]_vars

\* the exchange of a request of a caller ends in this step with a status other
\* than 2xx and 401, or without a response
OtherFailure(r) ==
  /\ answered' # <<>> /\ answered'[1].req = r
  /\ answered'[1].status \notin {200, 401}

\* the refresh call of r ends in this step with a status other than 2xx and
\* 401, or without a response
RefreshOtherFailure(r) ==
  /\ pc[r] = "refreshInflight"
  /\ answered' # <<>> /\ answered'[1].req = RefreshReq
  /\ answered'[1].status \notin {200, 401}

\* C12: a request that fails with a status other than 401 or without a
\* response is rejected with an ApiError in the same step: the call ends and is
\* never dispatched again, no refresh is started, and the store, isRefreshing
\* and refreshSubscribers are left as they were.  The refresh call that fails
\* so is rejected to the leader with an ApiError in the same way.
C12_OtherFailuresPropagate ==
  /\ [][\A r \in Reqs :
          /\ OtherFailure(r)
               => /\ pc'[r] = "done"
                  /\ result'.req = r /\ result'.kind = "ApiError"
                  /\ att' = att /\ calls' = calls
                  /\ UNCHANGED <<accessTok, refreshTok, isRefreshing,
                                 refreshSubscribers>>
          /\ RefreshOtherFailure(r)
               => /\ err'[r].kind = "ApiError"
                  /\ att' = att /\ calls' = calls
                  /\ UNCHANGED <<accessTok, refreshTok, isRefreshing,
                                 refreshSubscribers>>]_vars
  /\ [][\A r \in Reqs : pc[r] = "done" => pc'[r] = "done"]_vars

\* a request has just failed with 404 while the refresh started by another
\* request is in progress, and it has been rejected with an ApiError
C12_Witness ==
  \E r \in Reqs :
    /\ answered = <<[req |-> r, status |-> 404]>>
    /\ result = [req |-> r, kind |-> "ApiError", status |-> 404]
    /\ pc[r] = "done" /\ att[r] = 1
    /\ isRefreshing /\ refreshSubscribers # <<>>

\* the public operation called for r throws in this step
Fails(r) == result'.req = r /\ result'.kind # "body"

\* how the exchange ended on which the call of r fails in this step: the
\* exchange that ends in this step or, when none does, the last one made for r
\* (its own request, or the refresh call it issued)
FailsOn(r) ==
  IF answered' # <<>> THEN answered'[1].status
  ELSE IF lastStatus[r] # <<>> THEN lastStatus[r][1]
  ELSE NoResponse

\* C13: when a call fails on a non-2xx answer of the server, the ApiError
\* thrown carries the status of that answer.  Fails for a 401 drawn while the
\* store holds no refresh token: the error thrown has status 500.
C13_ErrorCarriesServerStatus ==
  [][\A r \in Reqs :
       Fails(r) /\ FailsOn(r) # NoResponse
         => result'.kind = "ApiError" /\ result'.status = FailsOn(r)]_vars

\* C14: when a call fails on an exchange that ended without a response
\* (transport failure or timeout), the ApiError thrown carries no HTTP
\* status.  Fails: the error thrown has status 500.
C14_TransportErrorHasNoStatus ==
  [][\A r \in Reqs :
       Fails(r) /\ FailsOn(r) = NoResponse
         => result'.kind = "ApiError" /\ result'.status = NoResponse]_vars

\* r has entered the recovery path while the store holds no refresh token
EntersWithoutRefreshToken(r) == pc[r] = "refreshRead" /\ refreshTok = 0

\* the recovery of r has found no refresh token in the store
FoundNoRefreshToken(r) ==
  pc[r] \in {"clear1", "clear2"} /\ err[r].kind = "Error"

FirstAttemptSucceeds(r) ==
  /\ answered' = <<[req |-> r, status |-> 200]>>
  /\ att[r] = 1

\* C16: a call whose first attempt is answered 2xx returns response.data in
\* that step; no refresh call is issued and the store, isRefreshing and
\* refreshSubscribers are left as they were
C16_SuccessLeavesNoTrace ==
  [][\A r \in Reqs :
       FirstAttemptSucceeds(r)
         => /\ pc'[r] = "done"
            /\ result' = [req |-> r, kind |-> "body", status |-> 200]
            /\ calls' = calls /\ ~Dispatched(RefreshReq)
            /\ led1'[r] = FALSE /\ nPart'[r] = 0
            /\ UNCHANGED <<accessTok, refreshTok, isRefreshing,
                           refreshSubscribers>>]_vars

\* a call has just returned the body of its first answer while the refresh
\* started by another call is in progress with a request waiting in the queue
C16_Witness ==
  \E r \in Reqs :
    /\ result = [req |-> r, kind |-> "body", status |-> 200]
    /\ pc[r] = "done" /\ att[r] = 1
    /\ isRefreshing /\ refreshSubscribers # <<>>

\* the application is logged out: the AuthProvider reports the user as not
\* authenticated (the route guards then replace the route by the login
\* screen) and the store holds no credentials
LoggedOut == ~ctxAuthenticated /\ accessTok = 0 /\ refreshTok = 0

\* C17: once the refresh call has failed, the application ends up logged out.
\* Fails: nothing tells the AuthProvider that the ApiService has deleted the
\* tokens, so its isAuthenticated stays true (and when the refresh call is
\* answered 401 the tokens are not deleted either).
C17_RefreshFailureLogsUserOut ==
  \A r \in Reqs : RefreshFailed(r) ~> LoggedOut

\* authService.logout completes in this step
LogoutCompletes == logoutPc # "out" /\ logoutPc' = "out"

\* C18: when authService.logout completes, the store holds neither an access
\* token nor a refresh token.  Fails when a refresh started by another call
\* writes its new access token between the two deletes of clearTokens.
C18_LogoutEmptiesStore ==
  [][LogoutCompletes => accessTok' = 0 /\ refreshTok' = 0]_vars

\* C19: a replay is sent to the url (with the method, the query parameters and
\* the body) of the first attempt of the same request
C19_ReplayKeepsDescriptor ==
  [][\A r \in Reqs :
       (Dispatched(r) /\ att[r] >= 1)
         => wire'[1].url = sent1[r] /\ wire'[1].url # NoUrl]_vars

\* the logout request, first sent with the old token, has just been replayed
\* with the new one while a replayed request of another url is in flight
C19_Witness ==
  \E r, q \in Reqs :
    /\ wire = <<[req |-> r, url |-> LogoutPath, auth |-> 2]>>
    /\ att[r] = 2 /\ tok1[r] = 1 /\ sent1[r] = LogoutPath
    /\ ReplayInFlight(q) /\ sent1[q] = Resource

\* C20: whatever a public operation throws is an ApiError with an HTTP error
\* status, also when the failure is the plain Error raised for a missing
\* refresh token
C20_OnlyApiErrorsEscape ==
  (result.req # 0 /\ result.kind # "body")
    => result.kind = "ApiError" /\ result.status \in {401, 404, 500}

\* the second of two failed recoveries found no refresh token (only one
\* refresh call was ever dispatched) and its caller got an ApiError
C20_Witness ==
  /\ result.req # 0 /\ result.kind = "ApiError" /\ result.status = 500
  /\ outcomes = <<"fail", "fail">> /\ calls = 1 /\ logoutPc = "none"
  /\ answered = <<>>

\* C24: whenever isRefreshing is false, refreshSubscribers is empty.  Fails
\* after a refresh that failed: the continuations queued behind it stay in
\* refreshSubscribers, to be called by whichever refresh succeeds next.
C24_QueueEmptyWhenIdle == ~isRefreshing => refreshSubscribers = <<>>

\* C25: the refresh request never enters the recovery path: it is never in
\* refreshSubscribers and its leader never waits for it there.  Fails when the
\* refresh call is answered 401.
C25_RefreshRequestNeverQueued ==
  /\ RefreshReq \notin Range(refreshSubscribers)
  /\ \A r \in Reqs : pc[r] # "refreshQueued"

\* C26: once the logout has completed, the store stays empty and no request
\* is dispatched with a token.  Fails when a refresh that was under way during
\* the logout writes its tokens, and when a replay resumed with a token is
\* dispatched afterwards.
C26_NothingSurvivesLogout ==
  /\ [](logoutPc = "out" => accessTok = 0 /\ refreshTok = 0)
  /\ [][(logoutPc = "out" /\ wire' # <<>>) => wire'[1].auth = 0]_vars

\* no refresh, no clearTokens and no setTokens is between its two storage
\* operations
NoWritePartWay ==
  /\ \A r \in Reqs : pc[r] \notin {"store2", "clear2"}
  /\ logoutPc # "clear2"
  /\ verifyPc # "set2"

\* C27: whenever no refresh, clearTokens or setTokens is between its two
\* storage operations, the two entries of the store are both present or both
\* absent.  Fails when the two writes of a refresh interleave with the two
\* deletes of a clearTokens.
C27_TokensStoredAsPair ==
  NoWritePartWay => (accessTok = 0 <=> refreshTok = 0)

\* the retryer fetches again in this step
Retried == qState = "failed" /\ qState' = "fetching"

\* C23: a profile fetch that failed with status 404 is not fetched again by
\* the retryer, and a fetch is retried at most 3 times whatever its errors
C23_ProfileFetchRetries ==
  /\ [][Retried => qError.status # 404]_vars
  /\ [](retries <= 3)

\* a fetch retried twice has been ended by a 404
C23_Witness ==
  qState = "error" /\ retries = 2 /\ qFailures = <<500, 401, 404>>

\* C22: an OTP is requested again from the OTP form only when the countdown
\* has reached 0, and at least 60 seconds after the request before it.  Fails:
\* the countdown starts at 30, so 30 seconds suffice.
C22_SixtySecondsBetweenRequests ==
  [][ResendOTP => countdown = 0 /\ sinceRequest >= 60]_vars

\* a guard effect runs in this step
GuardRuns == guardRun' # <<>>

\* a guard effect redirects in this step
Redirects == GuardRuns /\ guardRun'[1].to # Stay

\* a guard effect redirects to the route in this step
RedirectsTo(route) == GuardRuns /\ guardRun'[1].to = route

InAuthGroup == Segment(1) = "(auth)"

\* C29, second to fourth part: a guard that runs for an authenticated user on
\* an (auth) screen other than the Google callback redirects to the dashboard;
\* a guard that runs for an unauthenticated user outside (auth) redirects to
\* the login screen; no guard redirects while isLoading is set
C29_OtherCases ==
  /\ [][(GuardRuns /\ ~isLoading /\ ctxAuthenticated /\ InAuthGroup
          /\ segments # GoogleCallback) => RedirectsTo(Home)]_vars
  /\ [][(GuardRuns /\ ~isLoading /\ ~ctxAuthenticated /\ ~InAuthGroup)
          => RedirectsTo(Login)]_vars
  /\ [][isLoading => ~Redirects]_vars

\* C29: no guard redirects an authenticated user who is on the Google
\* callback screen, and the other three cases are as above.  Fails: the
\* effect of AuthLayout redirects every authenticated user to the dashboard.
C29_GuardsSpareGoogleCallback ==
  /\ [][(ctxAuthenticated /\ segments = GoogleCallback) => ~Redirects]_vars
  /\ C29_OtherCases

\* authService.verifyOTP returns a response with an access token in this
\* step, and no logout has been called
VerifySucceeds ==
  verifyPc = "set2" /\ verifyPc' = "none" /\ logoutPc = "none"

\* C21: when authService.verifyOTP returns, the access key holds the access
\* token of the response, the refresh key holds its refresh token, or the
\* access token when it has none, and isAuthenticated() gives true.  Fails
\* when another request, answered 401 with no refresh token in the store,
\* has its clearTokens delete the access token between the two writes.
C21_VerifyStoresTokens ==
  [][VerifySucceeds =>
       /\ accessTok' = verifyBody.access
       /\ refreshTok' = RefreshTokenToStore(verifyBody)
       /\ accessTok' # 0]_vars

\* AuthProvider.verifyOTP sets isAuthenticated in this step
VerifySetsAuthenticated ==
  /\ verifyBy = "AuthProvider"
  /\ verifyPc # "none" /\ verifyPc' = "none"
  /\ ctxAuthenticated'

\* C28: AuthProvider.verifyOTP sets isAuthenticated only after setTokens has
\* been called with the access token of the response.  Fails for a 2xx
\* response without an access token.
C28_AuthenticatedOnlyWithToken ==
  [][VerifySetsAuthenticated => verifyBody'.access # 0]_vars

====
